---- MODULE Spec2Model ----
(***************************************************************************)
(* Model of the KEGG mapping and normalization pipeline:                   *)
(*   process_single_diamond.py     hit extraction with identifier fallback *)
(*   sum_kegg_hits.py              per-code aggregation                    *)
(*   mean_single_copy.py           genome-count estimate from marker genes *)
(*   make_normalized_feature_table.py   parallel normalization, matrix     *)
(* Each script is a program of its own; each has its own specification     *)
(* below (SpecNorm, SpecDiamond, SpecSum, SpecMean) over its own variables, *)
(* the variables of the other scripts staying at their idle values.        *)
(***************************************************************************)
EXTENDS Integers, Sequences, FiniteSets, TLC

VARIABLES
    \* make_normalized_feature_table.py
    tsv_files,          \* os.listdir order of the *.tsv files (line 71)
    tsv_content,        \* what is on disk under each file name
    kegg_stats_data,    \* run_accession -> num_genomes, rows of the stats table
    task,               \* per file: "queued", "ran" (put done or skipped), "returned"
    task_result,        \* per file: the dict process_tsv_file returns
    completed,          \* run accessions in the order their tasks returned
    progress_queue,     \* number of items in the manager queue
    pbar_n,             \* tqdm counter pbar.n
    pc,                 \* position of the main process
    results,            \* results.get(): list of (run_accession, dict) in task order
    result_df,          \* the assembled DataFrame
    output_file,        \* the matrix as written by to_csv
    \* process_single_diamond.py
    gene_to_ko,         \* the gene id -> KO index (read-only)
    line,               \* the line of the current loop iteration
    hit_counts,         \* qseqid -> (ko_number -> count)
    total_lines,
    skipped_lines,
    no_ko_mapping,
    diamond_pc,         \* "streaming", "written"
    diamond_out,        \* the output file: lines (qseqid, ko_number, num_hits)
    \* sum_kegg_hits.py, run on a sample's file and on two chunks of it
    sum_input,          \* per run: the lines (qseqid, kegg_number, num_hits) of --input
    sum_output,         \* per run: the ko_sums table written to --output
    unassigned,         \* lines of the sample not yet written to a chunk
    \* mean_single_copy.py
    mean_file,          \* the summed file process_file is given
    mean_value,         \* the 'num_genomes' entry process_file returns
    mean_pc             \* "start", "done"

normVars == <<tsv_files, tsv_content, kegg_stats_data, task, task_result,
              completed, progress_queue, pbar_n, pc, results, result_df, output_file>>

diamondVars == <<gene_to_ko, line, hit_counts, total_lines, skipped_lines,
                 no_ko_mapping, diamond_pc, diamond_out>>

sumVars == <<sum_input, sum_output, unassigned>>

meanVars == <<mean_file, mean_value, mean_pc>>

vars == <<normVars, diamondVars, sumVars, meanVars>>

-----------------------------------------------------------------------------
(* Bounds *)

MaxSamples == 2
MaxLines == 3
MaxSumLines == 3
MaxRows == 3

-----------------------------------------------------------------------------
(* Floating-point values as pandas holds them: a rational n/d in lowest     *)
(* terms, NaN, +inf, or a text cell of an object column.                    *)

RECURSIVE GCD(_, _)
GCD(a, b) == IF b = 0 THEN a ELSE GCD(b, a % b)

Rat(n, d) ==
    LET g == GCD(n, d)
    IN  [kind |-> "num", n |-> n \div g, d |-> d \div g]

Num(n) == [kind |-> "num", n |-> n, d |-> 1]
NaN    == [kind |-> "nan", n |-> 0, d |-> 1]
Inf    == [kind |-> "inf", n |-> 0, d |-> 1]
Text   == [kind |-> "str", n |-> 0, d |-> 1]
None   == [kind |-> "none", n |-> 0, d |-> 1]

\* pd.to_numeric(..., errors='coerce') on one field
ToNumeric(field) == IF field.kind = "num" THEN field ELSE NaN

\* x / y of two non-negative float64 operands
FDiv(x, y) ==
    IF x.kind = "nan" \/ y.kind = "nan" THEN NaN
    ELSE IF y.n = 0 THEN (IF x.n = 0 THEN NaN ELSE Inf)
    ELSE Rat(x.n * y.d, x.d * y.n)

-----------------------------------------------------------------------------
(* Strings as sequences of one-character strings *)

Range(s) == {s[i] : i \in DOMAIN s}

Whitespace == {" ", "\t", "\n", "\r"}

RECURSIVE LStrip(_)
LStrip(s) == IF s # <<>> /\ Head(s) \in Whitespace THEN LStrip(Tail(s)) ELSE s

RECURSIVE RStrip(_)
RStrip(s) ==
    IF s # <<>> /\ s[Len(s)] \in Whitespace THEN RStrip(SubSeq(s, 1, Len(s) - 1)) ELSE s

\* str.strip()
Strip(s) == RStrip(LStrip(s))

\* str.split(sep): the fields between the separators, at least one field
RECURSIVE SplitAcc(_, _, _)
SplitAcc(s, sep, cur) ==
    IF s = <<>> THEN <<cur>>
    ELSE IF Head(s) = sep THEN <<cur>> \o SplitAcc(Tail(s), sep, <<>>)
    ELSE SplitAcc(Tail(s), sep, Append(cur, Head(s)))

Split(s, sep) == SplitAcc(s, sep, <<>>)

\* str.startswith(prefix)
StartsWith(s, prefix) ==
    Len(s) >= Len(prefix) /\ SubSeq(s, 1, Len(prefix)) = prefix

\* characters in code-point order, for sorted() on strings
CharOrder == <<"\t", "\n", "\r", " ", "#", ".", "1", "2", "d", "e", "g", "h", "i",
               "m", "n", "q", "r", "s", "x", "|">>

CharRank(c) == CHOOSE i \in 1..Len(CharOrder) : CharOrder[i] = c

RECURSIVE StrLess(_, _)
StrLess(a, b) ==
    IF b = <<>> THEN FALSE
    ELSE IF a = <<>> THEN TRUE
    ELSE IF Head(a) = Head(b) THEN StrLess(Tail(a), Tail(b))
    ELSE CharRank(Head(a)) < CharRank(Head(b))

-----------------------------------------------------------------------------
(* process_single_diamond.py *)

\* gene id -> KO indexes parse_kegg_dat may have built (never empty: main
\* stops on an empty index)
Indexes ==
    { (<<"g">> :> "K00001"),
      (<<"g">> :> "K00001") @@ (<<"g", ".", "h">> :> "K00002") @@ (<<"x">> :> "K00003") }

KoOrder == <<"K00001", "K00002", "K00003">>
KoRank(k) == CHOOSE i \in 1..Len(KoOrder) : KoOrder[i] = k

QueryIds == {<<"r", "1">>, <<"r", "2">>}

\* subject ids of the alignment hits
SubjectIds ==
    { <<"g">>, <<"h">>, <<"x">>,
      <<"g", ".", "h">>, <<"g", ".", "x">>, <<"g", ".", "x", ".", "h">>,
      <<"g", ".", "h", ".", "x">>, <<"h", ".", "g">>, <<".", "g">>,
      <<"n", "|", "g">>, <<"n", "|", "g", ".", "1">>, <<"n", "|", "h", ".", "1">>,
      <<"n", "|", "m", "|", "g">>, <<"g", "|", "h">>, <<"g", "|">>,
      <<"n", ".", "m", "|", "g">>, <<"n", "|", "h", ".", "g">>,
      <<"g", "|", "h", ".", "1">>, <<"|", "g", ".", "h">> }

HeaderLine == <<"q", "s", "e", "q", "i", "d", "\t", "s", "s", "e", "q", "i", "d", "\n">>

\* the lines an alignment file may hold
Lines ==
    {q \o <<"\t">> \o sid \o <<"\n">> : q \in QueryIds, sid \in SubjectIds}
    \cup {<<"r", "1", "\t", "g", "\t", "9", "\n">>,
          <<"r", "2", "\t", "n", "|", "g", ".", "1", "\t", "9", "\n">>,
          HeaderLine,
          <<"#", " ", "r", "1", "\t", "g", "\n">>,
          <<"q", "s", "e", "q", "i", "d", "1", "\t", "g", "\n">>,
          <<"r", "1", "\n">>, <<"r", "1", "\t", "\n">>, <<"\t", "g", "\n">>,
          <<"\n">>, <<"r", "1", " ", "g", "\n">>}

NoLine == <<>>

NotFound == "not_found"

\* line 107 taking the field after the first "|" instead of the last one
GeneId_AfterFirstPipe(sseqid) ==
    IF "|" \in Range(sseqid) THEN Split(sseqid, "|")[2] ELSE sseqid

\* line 107
GeneId(sseqid) ==
    IF "|" \in Range(sseqid)
    THEN LET fields == Split(sseqid, "|") IN fields[Len(fields)]
    ELSE sseqid

\* lines 110-121: the KO number a subject id maps to, or NotFound
ResolveKo(index, sseqid) ==
    LET gene_id == GeneId(sseqid)
    IN  IF gene_id \in DOMAIN index
        THEN index[gene_id]
        ELSE LET gene_id_base == Split(gene_id, ".")[1]
             IN  IF gene_id_base \in DOMAIN index
                 THEN index[gene_id_base]
                 ELSE NotFound

\* lines 94-101: is the line skipped
IsSkipped(l) ==
    \/ StartsWith(l, <<"q", "s", "e", "q", "i", "d">>)
    \/ StartsWith(l, <<"#">>)
    \/ Len(Split(Strip(l), "\t")) < 2

\* lines 103-104
Qseqid(l) == Split(Strip(l), "\t")[1]
Sseqid(l) == Split(Strip(l), "\t")[2]

\* lines 112/119 assigning 1 instead of adding 1
Increment_SetToOne(counts, qseqid, ko_number) ==
    LET inner == IF qseqid \in DOMAIN counts THEN counts[qseqid]
                 ELSE [k \in {} |-> 0]
    IN  [q \in DOMAIN counts \cup {qseqid} |->
            IF q = qseqid
            THEN [k \in DOMAIN inner \cup {ko_number} |->
                    IF k = ko_number THEN 1 ELSE inner[k]]
            ELSE counts[q]]

\* hit_counts[qseqid][ko_number] += 1 on a defaultdict of defaultdict(int)
Increment(counts, qseqid, ko_number) ==
    LET inner == IF qseqid \in DOMAIN counts THEN counts[qseqid]
                 ELSE [k \in {} |-> 0]
        old   == IF ko_number \in DOMAIN inner THEN inner[ko_number] ELSE 0
    IN  [q \in DOMAIN counts \cup {qseqid} |->
            IF q = qseqid
            THEN [k \in DOMAIN inner \cup {ko_number} |->
                    IF k = ko_number THEN old + 1 ELSE inner[k]]
            ELSE counts[q]]

NoCounts == [q \in {} |-> [k \in {} |-> 0]]

DiamondIdle ==
    /\ gene_to_ko = [g \in {} |-> NotFound]
    /\ line = NoLine
    /\ hit_counts = NoCounts
    /\ total_lines = 0
    /\ skipped_lines = 0
    /\ no_ko_mapping = 0
    /\ diamond_pc = "idle"
    /\ diamond_out = <<>>

\* one iteration of the loop of lines 87-121 on the next line of the file
ReadLine(l) ==
    /\ diamond_pc = "streaming"
    /\ total_lines < MaxLines
    /\ line' = l
    /\ total_lines' = total_lines + 1
    /\ IF IsSkipped(l)
       THEN /\ skipped_lines' = skipped_lines + 1
            /\ UNCHANGED <<hit_counts, no_ko_mapping>>
       ELSE LET ko_number == ResolveKo(gene_to_ko, Sseqid(l))
            IN  IF ko_number # NotFound
                THEN /\ hit_counts' = Increment(hit_counts, Qseqid(l), ko_number)
                     /\ UNCHANGED <<skipped_lines, no_ko_mapping>>
                ELSE /\ no_ko_mapping' = no_ko_mapping + 1
                     /\ UNCHANGED <<skipped_lines, hit_counts>>
    /\ UNCHANGED <<gene_to_ko, diamond_pc, diamond_out, normVars, sumVars, meanVars>>

\* end of file: lines 136-146 write the counts sorted by qseqid, then ko_number
WriteOutput ==
    /\ diamond_pc = "streaming"
    /\ LET recs == {<<q, k>> : q \in DOMAIN hit_counts,
                               k \in UNION {DOMAIN hit_counts[x] : x \in DOMAIN hit_counts}}
           have == {p \in recs : p[2] \in DOMAIN hit_counts[p[1]]}
           list == CHOOSE sq \in [1..Cardinality(have) -> have] : Range(sq) = have
           srt  == SortSeq(list, LAMBDA a, b :
                       \/ StrLess(a[1], b[1])
                       \/ a[1] = b[1] /\ KoRank(a[2]) < KoRank(b[2]))
       IN  diamond_out' = [i \in 1..Len(srt) |->
                             [qseqid |-> srt[i][1], ko_number |-> srt[i][2],
                              num_hits |-> hit_counts[srt[i][1]][srt[i][2]]]]
    /\ diamond_pc' = "written"
    /\ UNCHANGED <<gene_to_ko, line, hit_counts, total_lines, skipped_lines,
                   no_ko_mapping, normVars, sumVars, meanVars>>


-----------------------------------------------------------------------------
(* sum_kegg_hits.py *)

SumRuns == {"whole", "chunk1", "chunk2"}

\* lines of a hits file; num_hits is a numeral or some other text
SumLines ==
    { [qseqid |-> "r1", kegg_number |-> "K00001", num_hits |-> Num(1)],
      [qseqid |-> "r2", kegg_number |-> "K00001", num_hits |-> Num(2)],
      [qseqid |-> "r1", kegg_number |-> "K00002", num_hits |-> Num(2)],
      [qseqid |-> "r2", kegg_number |-> "K00002", num_hits |-> Text],
      [qseqid |-> "r1", kegg_number |-> "K00001", num_hits |-> Text],
      [qseqid |-> "r2", kegg_number |-> "K00003", num_hits |-> Num(1)] }

\* lines 22-25: to_numeric with coercion, then dropna on num_hits
RECURSIVE DropNa(_)
DropNa(rows) ==
    IF rows = <<>> THEN <<>>
    ELSE IF ToNumeric(Head(rows).num_hits).kind = "nan" THEN DropNa(Tail(rows))
    ELSE <<Head(rows)>> \o DropNa(Tail(rows))

\* line 28 keeping the last count of each code instead of the sum
RECURSIVE GroupSum_LastWins(_, _)
GroupSum_LastWins(rows, acc) ==
    IF rows = <<>> THEN acc
    ELSE LET r == Head(rows)
         IN  GroupSum_LastWins(Tail(rows),
                               [k \in DOMAIN acc \cup {r.kegg_number} |->
                                   IF k = r.kegg_number THEN r.num_hits.n ELSE acc[k]])

\* line 28: groupby('kegg_number')['num_hits'].sum(), row by row
RECURSIVE GroupSum(_, _)
GroupSum(rows, acc) ==
    IF rows = <<>> THEN acc
    ELSE LET r   == Head(rows)
             old == IF r.kegg_number \in DOMAIN acc THEN acc[r.kegg_number] ELSE 0
         IN  GroupSum(Tail(rows),
                      [k \in DOMAIN acc \cup {r.kegg_number} |->
                          IF k = r.kegg_number THEN old + r.num_hits.n ELSE acc[k]])

\* lines 18-31: the ko_sums table of an input
ko_sums(data) == GroupSum(DropNa(data), [k \in {} |-> 0])

NoOutput == [k \in {"no output"} |-> 0]

SumIdle ==
    /\ sum_input = [r \in SumRuns |-> <<>>]
    /\ sum_output = [r \in SumRuns |-> NoOutput]
    /\ unassigned = {}

\* the sample's line i goes to one of the two chunk files, lines in any order
WriteChunkLine(i, c) ==
    /\ i \in unassigned
    /\ sum_input' = [sum_input EXCEPT ![c] = Append(@, sum_input["whole"][i])]
    /\ unassigned' = unassigned \ {i}
    /\ UNCHANGED <<sum_output, normVars, diamondVars, meanVars>>

\* main() on one input file
SumMain(r) ==
    /\ unassigned = {}
    /\ sum_output[r] = NoOutput
    /\ sum_output' = [sum_output EXCEPT ![r] = ko_sums(sum_input[r])]
    /\ UNCHANGED <<sum_input, unassigned, normVars, diamondVars, meanVars>>

-----------------------------------------------------------------------------
(* mean_single_copy.py *)

\* Single-copy KEGG genes of interest (lines 20-36)
kegg_numbers ==
    { "K09748", "K03687", "K00962", "K02864", "K02994", "K02996", "K03438", "K02835",
      "K02836", "K02968", "K07042", "K11749", "K02879", "K02888", "K03110", "K03531",
      "K02834", "K11753", "K03550", "K03664", "K15429", "K09710", "K08316",
      "K03545", "K02357", "K03501", "K02939", "K02990", "K02520", "K03218", "K03703",
      "K07447", "K01937", "K01872", "K02313", "K03544", "K01870", "K01869", "K01874",
      "K01875", "K04485", "K03177", "K01883", "K03595", "K01892", "K01000",
      "K01887", "K01876", "K00604", "K01889", "K01890", "K02519", "K02838", "K02495",
      "K03723", "K06187", "K03702", "K03631", "K03551", "K03655", "K02338",
      "K02945", "K02528", "K03075", "K02601", "K01756", "K03106", "K03070", "K03073",
      "K03076", "K02988", "K02992", "K02887", "K02112",
      "K02890", "K02470", "K02469", "K02871", "K02876", "K02895", "K01924", "K01925",
      "K02340", "K02878", "K02863", "K02886", "K00088", "K02316", "K03596",
      "K06207", "K03625", "K02600", "K03553", "K03043", "K03040",
      "K03685", "K02860", "K03046", "K02343", "K04075", "K03979",
      "K00942", "K03977", "K02906", "K02948", "K25706", "K14742", "K02926" }

\* rows of a summed file as read with header=None, names=["KO", "Count"]: the
\* header line of the file is a row whose Count is text
MeanHeaderRow == [KO |-> "kegg_number", Count |-> Text]

MeanRows ==
    {MeanHeaderRow} \cup
    {[KO |-> k, Count |-> c] :
        k \in {"K09748", "K03687", "K00962", "K00001"},
        c \in {Num(0), Num(10), Num(20), Num(30), Text}}

\* lines 57-58: to_numeric with coercion, then dropna
RECURSIVE MeanDropNa(_)
MeanDropNa(rows) ==
    IF rows = <<>> THEN <<>>
    ELSE IF ToNumeric(Head(rows).Count).kind = "nan" THEN MeanDropNa(Tail(rows))
    ELSE <<Head(rows)>> \o MeanDropNa(Tail(rows))

\* line 61 without the marker filter
KeepAllRows(rows) == rows

\* line 61: data[data["KO"].isin(kegg_numbers)]
RECURSIVE FilterMarkers(_)
FilterMarkers(rows) ==
    IF rows = <<>> THEN <<>>
    ELSE IF Head(rows).KO \in kegg_numbers
         THEN <<Head(rows)>> \o FilterMarkers(Tail(rows))
         ELSE FilterMarkers(Tail(rows))

\* line 70: groupby("KO")["Count"].sum()
RECURSIVE SumHits(_, _)
SumHits(rows, acc) ==
    IF rows = <<>> THEN acc
    ELSE LET r   == Head(rows)
             old == IF r.KO \in DOMAIN acc THEN acc[r.KO] ELSE 0
         IN  SumHits(Tail(rows),
                     [k \in DOMAIN acc \cup {r.KO} |->
                         IF k = r.KO THEN old + r.Count.n ELSE acc[k]])

RECURSIVE SumValues(_, _)
SumValues(f, S) ==
    IF S = {} THEN 0
    ELSE LET k == CHOOSE x \in S : TRUE IN f[k] + SumValues(f, S \ {k})

\* line 74: Series.mean()
Mean(sum_hits) ==
    Rat(SumValues(sum_hits, DOMAIN sum_hits), Cardinality(DOMAIN sum_hits))

\* lines 40-89: the num_genomes value process_file returns
process_file(file) ==
    IF ~file.readable THEN None
    ELSE IF file.st_size = 0 THEN None
    ELSE LET filtered_data == FilterMarkers(MeanDropNa(file.rows))
         IN  IF filtered_data = <<>> THEN None
             ELSE Mean(SumHits(filtered_data, [k \in {} |-> 0]))

NoFile == [readable |-> FALSE, st_size |-> 0, rows |-> <<>>]

MeanIdle ==
    /\ mean_file = NoFile
    /\ mean_value = None
    /\ mean_pc = "idle"

ProcessFile ==
    /\ mean_pc = "start"
    /\ mean_value' = process_file(mean_file)
    /\ mean_pc' = "done"
    /\ UNCHANGED <<mean_file, normVars, diamondVars, sumVars>>

-----------------------------------------------------------------------------
(* make_normalized_feature_table.py *)

FileNames == <<"A_kegg_hits_summed.tsv", "B_kegg_hits_summed.tsv",
               "C_kegg_hits_summed.tsv", "D_kegg_hits_summed.tsv">>
RunNames  == <<"A", "B", "C", "D">>

Files == {FileNames[i] : i \in 1..MaxSamples}

\* file_name.replace('_kegg_hits_summed.tsv', '')
RunAccession(file_name) ==
    RunNames[CHOOSE i \in 1..Len(FileNames) : FileNames[i] = file_name]

\* position of a run accession in lexicographic order
LexRank(run) == CHOOSE i \in 1..Len(RunNames) : RunNames[i] = run

EmptyDict == [k \in {} |-> NaN]

\* the per-code totals tables a summed file may hold (kegg_number -> sum_num_hits)
TotalsTables ==
    { [k \in {"K00001"} |-> 5],
      [k \in {"K00001", "K00002"} |-> IF k = "K00001" THEN 2 ELSE 4] }

\* a file on disk: st_size and, when it parses, its table
EmptyFile == [st_size |-> 0, table |-> [k \in {} |-> 0]]
Contents  == {EmptyFile} \cup {[st_size |-> 1, table |-> t] : t \in TotalsTables}

\* num_genomes cells of the stats table: empty, text, or a number
GenomeCounts == {NaN, Text, Num(0), Num(2), Num(5)}

\* process_tsv_file: whether it puts on the progress queue, and what it returns
process_tsv_file(file_name) ==
    LET run_accession == RunAccession(file_name)
    IN  IF run_accession \notin DOMAIN kegg_stats_data
        THEN [put |-> FALSE, result |-> EmptyDict]
        ELSE LET num_genomes == kegg_stats_data[run_accession]
                 content     == tsv_content[file_name]
             IN  IF content.st_size = 0
                 THEN [put |-> TRUE, result |-> EmptyDict]
                 ELSE IF num_genomes.kind = "str"
                 THEN [put |-> TRUE, result |-> EmptyDict]
                 ELSE [put |-> TRUE,
                       result |-> [k \in DOMAIN content.table |->
                                     FDiv(Num(content.table[k]), num_genomes)]]

Perms(S) == {s \in [1..Cardinality(S) -> S] : Range(s) = S}

NoFrame == [columns |-> <<>>, index |-> {}, cell |-> EmptyDict]

NormIdle ==
    /\ tsv_files = <<>>
    /\ tsv_content = EmptyDict
    /\ kegg_stats_data = EmptyDict
    /\ task = EmptyDict
    /\ task_result = EmptyDict
    /\ completed = <<>>
    /\ progress_queue = 0
    /\ pbar_n = 0
    /\ pc = "idle"
    /\ results = <<>>
    /\ result_df = NoFrame
    /\ output_file = NoFrame

InitNorm ==
    /\ \E S \in SUBSET Files : tsv_files \in Perms(S)
    /\ tsv_content \in [Range(tsv_files) -> Contents]
    /\ \E D \in SUBSET {RunAccession(f) : f \in Range(tsv_files)} :
          kegg_stats_data \in [D -> GenomeCounts]
    /\ task = [f \in Range(tsv_files) |-> "queued"]
    /\ task_result = [f \in Range(tsv_files) |-> EmptyDict]
    /\ completed = <<>>
    /\ progress_queue = 0
    /\ pbar_n = 0
    /\ pc = "update_progress"
    /\ results = <<>>
    /\ result_df = NoFrame
    /\ output_file = NoFrame
    /\ DiamondIdle /\ SumIdle /\ MeanIdle

\* a pool worker runs process_tsv_file on one file, up to its return statement
RunTask(f) ==
    /\ task[f] = "queued"
    /\ LET r == process_tsv_file(f)
       IN  /\ progress_queue' = IF r.put THEN progress_queue + 1 ELSE progress_queue
           /\ task_result' = [task_result EXCEPT ![f] = r.result]
    /\ task' = [task EXCEPT ![f] = "ran"]
    /\ UNCHANGED <<tsv_files, tsv_content, kegg_stats_data, completed, pbar_n, pc,
                   results, result_df, output_file, diamondVars, sumVars, meanVars>>

\* the worker hands the return value back to the pool's result handler
ReturnTask(f) ==
    /\ task[f] = "ran"
    /\ task' = [task EXCEPT ![f] = "returned"]
    /\ completed' = Append(completed, RunAccession(f))
    /\ UNCHANGED <<tsv_files, tsv_content, kegg_stats_data, task_result,
                   progress_queue, pbar_n, pc, results, result_df, output_file,
                   diamondVars, sumVars, meanVars>>

\* one iteration of update_progress: a blocking get, pbar.update(), the exit test
UpdateProgress ==
    /\ pc = "update_progress"
    /\ progress_queue > 0
    /\ progress_queue' = progress_queue - 1
    /\ pbar_n' = pbar_n + 1
    /\ pc' = IF pbar_n + 1 = Len(tsv_files) THEN "results_get" ELSE "update_progress"
    /\ UNCHANGED <<tsv_files, tsv_content, kegg_stats_data, task, task_result, completed,
                   results, result_df, output_file, diamondVars, sumVars, meanVars>>

\* results.get(): blocks until every task of the map has returned
ResultsGet ==
    /\ pc = "results_get"
    /\ \A f \in Range(tsv_files) : task[f] = "returned"
    /\ results' = [i \in 1..Len(tsv_files) |->
                     <<RunAccession(tsv_files[i]), task_result[tsv_files[i]]>>]
    /\ pc' = "combine"
    /\ UNCHANGED <<tsv_files, tsv_content, kegg_stats_data, task, task_result, completed,
                   progress_queue, pbar_n, result_df, output_file, diamondVars,
                   sumVars, meanVars>>

\* d[key] = v
Put(d, key, v) == [x \in DOMAIN d \cup {key} |-> IF x = key THEN v ELSE d[x]]

\* lines 100-104 for one (run_accession, result) pair
CombineOne(combined, run_accession, result) ==
    IF DOMAIN result = {}
    THEN combined
    ELSE [k \in DOMAIN combined \cup DOMAIN result |->
            IF k \in DOMAIN result
            THEN Put(IF k \in DOMAIN combined THEN combined[k] ELSE EmptyDict,
                     run_accession, result[k])
            ELSE combined[k]]

\* lines 95-104: the loop over results, in list order
RECURSIVE CombineAll(_, _)
CombineAll(combined, rs) ==
    IF rs = <<>> THEN combined
    ELSE CombineAll(CombineOne(combined, Head(rs)[1], Head(rs)[2]), Tail(rs))

\* line 107
all_run_accessions == [i \in 1..Len(tsv_files) |-> RunAccession(tsv_files[i])]

\* lines 108-111: default-fill of absent (code, run) pairs
FillZero(combined) ==
    [k \in DOMAIN combined |->
        [r \in DOMAIN combined[k] \cup Range(all_run_accessions) |->
            IF r \in DOMAIN combined[k] THEN combined[k][r] ELSE Num(0)]]

combined_results == FillZero(CombineAll(EmptyDict, results))

\* line 119 without the sort: the columns in directory-listing order
columns_order_listed == <<"kegg_number">> \o all_run_accessions

\* line 119
columns_order ==
    <<"kegg_number">> \o
    SortSeq(all_run_accessions, LAMBDA a, b : LexRank(a) < LexRank(b))

\* lines 114-116: the columns of DataFrame.from_dict(..., orient='index') after
\* reset_index: the index column and the union of the inner keys
FrameColumns(combined) ==
    {"kegg_number"} \cup UNION {DOMAIN combined[k] : k \in DOMAIN combined}

\* line 120 raises KeyError when a requested column is not in the frame
KeyError(combined) ==
    \E c \in Range(columns_order) : c \notin FrameColumns(combined)

\* lines 94-120
Combine ==
    /\ pc = "combine"
    /\ IF KeyError(combined_results)
       THEN /\ pc' = "error"
            /\ UNCHANGED result_df
       ELSE /\ pc' = "to_csv"
            /\ result_df' = [columns |-> columns_order,
                             index   |-> DOMAIN combined_results,
                             cell    |-> combined_results]
    /\ UNCHANGED <<tsv_files, tsv_content, kegg_stats_data, task, task_result, completed,
                   progress_queue, pbar_n, results, output_file, diamondVars, sumVars,
                   meanVars>>

\* float_format='%.6f': a number in millionths, rounded; NaN as the empty
\* string (na_rep); inf as "inf"
Fmt6(v) ==
    IF v.kind = "num"
    THEN [kind |-> "num", micro |-> (2 * 1000000 * v.n + v.d) \div (2 * v.d)]
    ELSE IF v.kind = "nan" THEN [kind |-> "empty", micro |-> 0]
    ELSE [kind |-> "inf", micro |-> 0]

\* line 123
ToCsv ==
    /\ pc = "to_csv"
    /\ output_file' = [columns |-> result_df.columns,
                       index   |-> result_df.index,
                       cell    |-> [k \in result_df.index |->
                                      [r \in DOMAIN result_df.cell[k] |->
                                          Fmt6(result_df.cell[k][r])]]]
    /\ pc' = "done"
    /\ UNCHANGED <<tsv_files, tsv_content, kegg_stats_data, task, task_result, completed,
                   progress_queue, pbar_n, results, result_df, diamondVars, sumVars,
                   meanVars>>

NextNorm ==
    \/ \E f \in Range(tsv_files) : RunTask(f)
    \/ \E f \in Range(tsv_files) : ReturnTask(f)
    \/ UpdateProgress
    \/ ResultsGet
    \/ Combine
    \/ ToCsv

SpecNorm == InitNorm /\ [][NextNorm]_vars

InitDiamond ==
    /\ gene_to_ko \in Indexes
    /\ line = NoLine
    /\ hit_counts = NoCounts
    /\ total_lines = 0
    /\ skipped_lines = 0
    /\ no_ko_mapping = 0
    /\ diamond_pc = "streaming"
    /\ diamond_out = <<>>
    /\ NormIdle /\ SumIdle /\ MeanIdle

NextDiamond ==
    \/ \E l \in Lines : ReadLine(l)
    \/ WriteOutput

SpecDiamond == InitDiamond /\ [][NextDiamond]_vars

\* sequences over S of length at most n
SeqsUpTo(S, n) == UNION {[1..m -> S] : m \in 0..n}

InitSum ==
    /\ \E data \in SeqsUpTo(SumLines, MaxSumLines) :
          /\ sum_input = [r \in SumRuns |-> IF r = "whole" THEN data ELSE <<>>]
          /\ unassigned = DOMAIN data
    /\ sum_output = [r \in SumRuns |-> NoOutput]
    /\ NormIdle /\ DiamondIdle /\ MeanIdle

NextSum ==
    \/ \E i \in unassigned, c \in {"chunk1", "chunk2"} : WriteChunkLine(i, c)
    \/ \E r \in SumRuns : SumMain(r)

SpecSum == InitSum /\ [][NextSum]_vars

InitMean ==
    /\ \/ mean_file = NoFile
       \/ \E rows \in SeqsUpTo(MeanRows, MaxRows) :
             mean_file = [readable |-> TRUE, st_size |-> Len(rows), rows |-> rows]
    /\ mean_value = None
    /\ mean_pc = "start"
    /\ NormIdle /\ DiamondIdle /\ SumIdle

NextMean == ProcessFile

SpecMean == InitMean /\ [][NextMean]_vars

-----------------------------------------------------------------------------
(* Claims about make_normalized_feature_table.py, checked under SpecNorm *)

AllTasksReturned == \A f \in Range(tsv_files) : task[f] = "returned"

Runs == {RunAccession(f) : f \in Range(tsv_files)}

FileOf(run) == CHOOSE f \in Range(tsv_files) : RunAccession(f) = run

\* the sample's per-code totals table (no entries for a zero-size file)
TotalsOf(run) == tsv_content[FileOf(run)].table

\* the sample's total for a code, 0 when the code is absent from its table
TotalOf(run, k) == IF k \in DOMAIN TotalsOf(run) THEN TotalsOf(run)[k] ELSE 0

\* no row in the stats table, or an empty num_genomes cell
MissingGenomeCount(run) ==
    run \notin DOMAIN kegg_stats_data \/ kegg_stats_data[run].kind = "nan"

ZeroCell == [kind |-> "num", micro |-> 0]

\* C1: the normalization run always completes. Once every worker task has
\* returned, the main process is not left blocked in update_progress on an
\* empty progress queue, whatever the per-file outcomes were (and for the
\* empty file set too).
C1_RunNeverBlocksOnProgressQueue ==
    AllTasksReturned => (pc # "update_progress" \/ progress_queue > 0)

\* C2: every sample whose genome count is missing (no stats row, or an empty
\* num_genomes cell) still has its column in the written matrix, and every
\* cell of that column is zero.
C2_MissingGenomeCountGivesZeroColumn ==
    pc = "done" =>
        \A run \in Runs :
            MissingGenomeCount(run) =>
                /\ run \in Range(output_file.columns)
                /\ \A k \in output_file.index :
                      /\ run \in DOMAIN output_file.cell[k]
                      /\ output_file.cell[k][run] = ZeroCell

\* C3: once all results are collected the matrix is written and is fully
\* dense: its sample columns are exactly the sample ids of the input files,
\* each once; every (code, sample) pair has a cell; and the cell is 0 when the
\* code had no hits in the sample. This includes the runs in which every
\* sample's result is empty.
C3_MatrixFullyDense ==
    pc \in {"to_csv", "done", "error"} =>
        /\ pc # "error"
        /\ Len(result_df.columns) = 1 + Cardinality(Runs)
        /\ {result_df.columns[i] : i \in 2..Len(result_df.columns)} = Runs
        /\ \A k \in result_df.index : \A run \in Runs :
              /\ run \in DOMAIN result_df.cell[k]
              /\ k \notin DOMAIN TotalsOf(run) => result_df.cell[k][run] = Num(0)

\* C4: the rows of the written matrix are exactly the functional codes present
\* in at least one input sample's totals table, whether or not that sample has
\* a usable genome count.
C4_RowSetIsUnionOfCodes ==
    pc = "done" =>
        output_file.index = UNION {DOMAIN TotalsOf(run) : run \in Runs}

\* C5: matrix assembly starts only after every worker task has returned and
\* its result is collected, and the columns of the matrix are the code column
\* followed by all sample ids in strictly increasing lexicographic order: a
\* function of the set of input files alone, whatever the order in which the
\* directory listed them and the workers completed.
C5_ColumnsSortedAfterBarrier ==
    /\ pc \in {"combine", "to_csv", "done", "error"} =>
          /\ AllTasksReturned
          /\ Len(results) = Len(tsv_files)
          /\ \A i \in 1..Len(results) :
                /\ results[i][1] = RunAccession(tsv_files[i])
                /\ results[i][2] = task_result[tsv_files[i]]
    /\ pc \in {"to_csv", "done"} =>
          \A df \in {result_df} \cup (IF pc = "done" THEN {output_file} ELSE {}) :
              /\ Len(df.columns) = 1 + Cardinality(Runs)
              /\ df.columns[1] = "kegg_number"
              /\ {df.columns[i] : i \in 2..Len(df.columns)} = Runs
              /\ \A i, j \in 2..Len(df.columns) :
                    i < j => LexRank(df.columns[i]) < LexRank(df.columns[j])

\* C5 witness: a matrix written from two samples that the directory listed,
\* and whose workers completed, in descending order of sample id.
C5_Witness ==
    /\ pc = "done"
    /\ Len(tsv_files) >= 2
    /\ LexRank(RunAccession(tsv_files[1])) > LexRank(RunAccession(tsv_files[2]))
    /\ LexRank(completed[1]) > LexRank(completed[2])

\* C10: for every sample with a non-missing (numeric) genome count and every
\* row of the matrix, the cell is the sample's total for the code (0 if
\* absent) divided by the genome count: a number q with q * genome_count = total.
C10_CellIsTotalOverGenomeCount ==
    pc \in {"to_csv", "done"} =>
        \A run \in Runs :
            (run \in DOMAIN kegg_stats_data /\ kegg_stats_data[run].kind = "num") =>
                \A k \in result_df.index :
                    LET cell == result_df.cell[k][run]
                        gc   == kegg_stats_data[run]
                    IN  /\ cell.kind = "num"
                        /\ cell.n * gc.n = TotalOf(run, k) * gc.d * cell.d

-----------------------------------------------------------------------------
(* Claims about process_single_diamond.py, checked under SpecDiamond *)

I1 == (<<"g">> :> "K00001")

\* the substring after the last "|", the whole id if it has none
AfterLastPipe(sid) ==
    CHOOSE g \in {SubSeq(sid, i, Len(sid)) : i \in 1..(Len(sid) + 1)} :
        /\ "|" \notin Range(g)
        /\ Len(g) = Len(sid) \/ sid[Len(sid) - Len(g)] = "|"

\* the substring before the first ".", the whole string if it has none
BeforeFirstDot(g) ==
    CHOOSE b \in {SubSeq(g, 1, i) : i \in 0..Len(g)} :
        /\ "." \notin Range(b)
        /\ Len(b) = Len(g) \/ g[Len(b) + 1] = "."

\* the fixed two-step policy: exact lookup, then the dot-stripped lookup, then nothing
TwoStep(index, sid) ==
    IF AfterLastPipe(sid) \in DOMAIN index THEN index[AfterLastPipe(sid)]
    ELSE IF BeforeFirstDot(AfterLastPipe(sid)) \in DOMAIN index
         THEN index[BeforeFirstDot(AfterLastPipe(sid))]
         ELSE NotFound

CountOf(counts, q, k) ==
    IF q \in DOMAIN counts /\ k \in DOMAIN counts[q] THEN counts[q][k] ELSE 0

\* C6: every data line's subject id is resolved by the fixed two-step
\* fallback: the substring after the last "|" is looked up; if absent, that
\* substring cut before its first "." is looked up once; otherwise the hit is
\* unresolved. A resolved hit adds one to exactly the count of (query, code)
\* and leaves no_ko_mapping alone; an unresolved one adds one to
\* no_ko_mapping and leaves every hit count alone.
C6_TwoStepFallback ==
    [][ (total_lines' = total_lines + 1 /\ ~IsSkipped(line')) =>
          \E q \in {Qseqid(line')}, ko \in {TwoStep(gene_to_ko, Sseqid(line'))} :
              IF ko # NotFound
              THEN /\ no_ko_mapping' = no_ko_mapping
                   /\ \A q2 \in DOMAIN hit_counts' \cup DOMAIN hit_counts \cup {q} :
                         \A k \in Range(KoOrder) :
                            CountOf(hit_counts', q2, k) =
                               CountOf(hit_counts, q2, k)
                                  + (IF q2 = q /\ k = ko THEN 1 ELSE 0)
              ELSE /\ no_ko_mapping' = no_ko_mapping + 1
                   /\ hit_counts' = hit_counts ]_vars

\* C6 witness: after a line whose subject id was counted as unmapped, the id
\* n|g.1 read with only g in the index has been counted under g's code.
C6_Witness ==
    /\ gene_to_ko = I1
    /\ total_lines = 2
    /\ line = <<"r", "1", "\t", "n", "|", "g", ".", "1", "\n">>
    /\ hit_counts = (<<"r", "1">> :> ("K00001" :> 1))
    /\ no_ko_mapping = 1
    /\ skipped_lines = 0

\* the (qseqid, ko_number) pairs that have a count
HitPairs(counts) ==
    {p \in UNION {{<<q, k>> : k \in DOMAIN counts[q]} : q \in DOMAIN counts} : TRUE}

RECURSIVE SumPairs(_, _)
SumPairs(counts, P) ==
    IF P = {} THEN 0
    ELSE LET p == CHOOSE x \in P : TRUE
         IN  counts[p[1]][p[2]] + SumPairs(counts, P \ {p})

\* the sum of all hit counts
TotalHits(counts) == SumPairs(counts, HitPairs(counts))

RECURSIVE SumNumHits(_)
SumNumHits(out) ==
    IF out = <<>> THEN 0 ELSE Head(out).num_hits + SumNumHits(Tail(out))

\* a header or comment line, or a line with fewer than two tab-separated
\* fields: none at all once the surrounding whitespace is removed
HeaderOrShort(l) ==
    \/ Len(l) >= 1 /\ l[1] = "#"
    \/ Len(l) >= 6 /\ <<l[1], l[2], l[3], l[4], l[5], l[6]>> = <<"q", "s", "e", "q", "i", "d">>
    \/ "\t" \notin Range(Strip(l))

\* C11: line accounting is conserved. Every line read is counted in exactly
\* one way: as skipped (header or comment line, or fewer than two
\* tab-separated fields), as unmapped (subject id unresolved under both
\* lookups), or as one increment of exactly one (query, code) count; a skipped
\* or unmapped line leaves the hit counts alone. So at every point, and in the
\* written output, total_lines = skipped_lines + no_ko_mapping + the sum of
\* all hit counts.
C11_LineAccountingConserved ==
    /\ [](/\ total_lines = skipped_lines + no_ko_mapping + TotalHits(hit_counts)
          /\ diamond_pc = "written" =>
                /\ SumNumHits(diamond_out) = TotalHits(hit_counts)
                /\ Len(diamond_out) = Cardinality(HitPairs(hit_counts)))
    /\ [][ total_lines' = total_lines + 1 =>
             \E hits \in {TotalHits(hit_counts)}, hits2 \in {TotalHits(hit_counts')} :
                IF HeaderOrShort(line')
                THEN /\ skipped_lines' = skipped_lines + 1
                     /\ no_ko_mapping' = no_ko_mapping
                     /\ hit_counts' = hit_counts
                ELSE IF TwoStep(gene_to_ko, Sseqid(line')) = NotFound
                THEN /\ skipped_lines' = skipped_lines
                     /\ no_ko_mapping' = no_ko_mapping + 1
                     /\ hit_counts' = hit_counts
                ELSE /\ skipped_lines' = skipped_lines
                     /\ no_ko_mapping' = no_ko_mapping
                     /\ hits2 = hits + 1
                     /\ Cardinality({p \in HitPairs(hit_counts') :
                            CountOf(hit_counts', p[1], p[2]) #
                               CountOf(hit_counts, p[1], p[2])}) = 1 ]_vars

\* C11 witness: a file of three lines, one skipped, one unmapped and one
\* counted as a hit, has been streamed and its output written.
C11_Witness ==
    /\ diamond_pc = "written"
    /\ total_lines = 3
    /\ skipped_lines = 1
    /\ no_ko_mapping = 1
    /\ Len(diamond_out) = 1
    /\ diamond_out[1].num_hits = 1

-----------------------------------------------------------------------------
(* Claims about sum_kegg_hits.py, checked under SpecSum *)

RECURSIVE SumHitsOfLines(_, _)
SumHitsOfLines(data, I) ==
    IF I = {} THEN 0
    ELSE LET i == CHOOSE x \in I : TRUE
         IN  data[i].num_hits.n + SumHitsOfLines(data, I \ {i})

\* the lines of data that carry code k with a numeric count
LinesOfCode(data, k) ==
    {i \in DOMAIN data : data[i].kegg_number = k /\ data[i].num_hits.kind = "num"}

\* code-wise sum of two totals tables
AddTables(t1, t2) ==
    [k \in DOMAIN t1 \cup DOMAIN t2 |->
        (IF k \in DOMAIN t1 THEN t1[k] ELSE 0) + (IF k \in DOMAIN t2 THEN t2[k] ELSE 0)]

AllSummed == \A r \in SumRuns : sum_output[r] # NoOutput

\* C7: for every split of the sample's lines into two chunks, in any order,
\* the code-wise sum of the two chunks' tables equals the table of the whole
\* sample, and each code's total is the sum of the counts of all lines that
\* carry the code, over all queries.
C7_AggregationChunkIndependent ==
    AllSummed =>
        /\ Len(sum_input["chunk1"]) + Len(sum_input["chunk2"]) = Len(sum_input["whole"])
        /\ AddTables(sum_output["chunk1"], sum_output["chunk2"]) = sum_output["whole"]
        /\ DOMAIN sum_output["whole"] =
              {k \in {"K00001", "K00002", "K00003"} :
                  LinesOfCode(sum_input["whole"], k) # {}}
        /\ \A k \in DOMAIN sum_output["whole"] :
              sum_output["whole"][k] =
                 SumHitsOfLines(sum_input["whole"], LinesOfCode(sum_input["whole"], k))

\* C7 witness: a code with lines of two different queries, one in each chunk,
\* the chunks taking the lines in the opposite order of the sample's file.
C7_Witness ==
    /\ AllSummed
    /\ Len(sum_input["whole"]) = 3
    /\ sum_input["whole"][1].kegg_number = "K00001"
    /\ sum_input["whole"][1].qseqid = "r1"
    /\ sum_input["whole"][1].num_hits = Num(1)
    /\ sum_input["chunk2"] = <<sum_input["whole"][1]>>
    /\ sum_input["chunk1"] = <<sum_input["whole"][3], sum_input["whole"][2]>>
    /\ sum_input["whole"][2].kegg_number = "K00001"
    /\ sum_input["whole"][2].qseqid = "r2"
    /\ sum_output["whole"]["K00001"] = 3

-----------------------------------------------------------------------------
(* Claims about mean_single_copy.py, checked under SpecMean *)

\* rows of the file whose count is numeric and whose code is in the marker panel
MarkerRows == {i \in DOMAIN mean_file.rows :
                  /\ mean_file.rows[i].Count.kind = "num"
                  /\ mean_file.rows[i].KO \in kegg_numbers}

MarkerCodes == {mean_file.rows[i].KO : i \in MarkerRows}

RECURSIVE SumCounts(_)
SumCounts(I) ==
    IF I = {} THEN 0
    ELSE LET i == CHOOSE x \in I : TRUE
         IN  mean_file.rows[i].Count.n + SumCounts(I \ {i})

\* C8: the estimate is the arithmetic mean of the per-code totals of the
\* marker-panel codes (the sum of the marker codes' totals over the number of
\* distinct marker codes present), with no outlier rejection, and it is
\* missing exactly when the file is unreadable or empty or no code of its
\* totals (rows with a numeric count) is in the marker panel.
C8_EstimateIsMarkerMean ==
    mean_pc = "done" =>
        /\ mean_value = None <=>
              (~mean_file.readable \/ mean_file.st_size = 0 \/ MarkerCodes = {})
        /\ mean_value # None =>
              /\ mean_value.kind = "num"
              /\ mean_value.n * Cardinality(MarkerCodes) =
                    mean_value.d * SumCounts(MarkerRows)

\* C8 witness: totals 10, 20, 30 on three marker codes give exactly 20.
C8_Witness ==
    /\ mean_pc = "done"
    /\ mean_file.rows = <<[KO |-> "K09748", Count |-> Num(10)],
                          [KO |-> "K03687", Count |-> Num(20)],
                          [KO |-> "K00962", Count |-> Num(30)]>>
    /\ mean_value = Num(20)

\* C9: when every marker-panel code present in the file has total 0, or only
\* non-numeric counts, the estimator returns missing, as it does when no
\* marker code is present; it never returns a genome count of 0.
C9_AllZeroMarkersGiveMissing ==
    mean_pc = "done" =>
        /\ SumCounts(MarkerRows) = 0 => mean_value = None
        /\ mean_value # Num(0)

====
